---- MODULE Spec2Model ----
(***************************************************************************)
(* Model of the credential subsystem of apiodactyl (src/auth.rs,            *)
(* src/errors.rs, src/main.rs): the SHA-256 key hasher, the TTL cache of    *)
(* API keys, the AuthService operations over the MongoDB collection         *)
(* "api_keys", and the User / AdminUser request guards.                     *)
(***************************************************************************)
EXTENDS Integers, Sequences, FiniteSets, TLC

(***************************************************************************)
(* SHA-256 (sha2::Sha256) over byte sequences, and hex::encode.             *)
(* A 32-bit word is a pair <<hi, lo>> of 16-bit halves.                     *)
(***************************************************************************)
RECURSIVE Pow2(_)
Pow2(n) == IF n = 0 THEN 1 ELSE 2 * Pow2(n - 1)

RECURSIVE And16(_, _, _)
And16(a, b, n) ==
    IF n = 0 THEN 0
    ELSE (a % 2) * (b % 2) + 2 * And16(a \div 2, b \div 2, n - 1)

RECURSIVE Xor16(_, _, _)
Xor16(a, b, n) ==
    IF n = 0 THEN 0
    ELSE ((a + b) % 2) + 2 * Xor16(a \div 2, b \div 2, n - 1)

WAnd(x, y) == <<And16(x[1], y[1], 16), And16(x[2], y[2], 16)>>

WXor(x, y) == <<Xor16(x[1], y[1], 16), Xor16(x[2], y[2], 16)>>

WNot(x) == <<65535 - x[1], 65535 - x[2]>>

WAdd(x, y) ==
    LET lo == x[2] + y[2]
        hi == x[1] + y[1] + (lo \div 65536)
    IN  <<hi % 65536, lo % 65536>>

RECURSIVE RotR(_, _)
RotR(x, n) ==
    IF n >= 16 THEN RotR(<<x[2], x[1]>>, n - 16)
    ELSE <<(x[1] \div Pow2(n)) + (x[2] % Pow2(n)) * Pow2(16 - n),
           (x[2] \div Pow2(n)) + (x[1] % Pow2(n)) * Pow2(16 - n)>>

ShR(x, n) ==
    <<x[1] \div Pow2(n),
      (x[2] \div Pow2(n)) + (x[1] % Pow2(n)) * Pow2(16 - n)>>

Sha256H0 ==
    <<<<27145, 58983>>, <<47975, 44677>>, <<15470, 62322>>, <<42319, 62778>>, <<20750, 21119>>, <<39685, 26764>>, <<8067, 55723>>, <<23520, 52505>>>>

Sha256K ==
    <<
       <<17034, 12184>>, <<28983, 17553>>, <<46528, 64463>>, <<59829, 56229>>,
       <<14678, 49755>>, <<23025, 4593>>, <<37439, 33444>>, <<43804, 24277>>,
       <<55303, 43672>>, <<4739, 23297>>, <<9265, 34238>>, <<21772, 32195>>,
       <<29374, 23924>>, <<32990, 45566>>, <<39900, 1703>>, <<49563, 61812>>,
       <<58523, 27073>>, <<61374, 18310>>, <<4033, 40390>>, <<9228, 41420>>,
       <<11753, 11375>>, <<19060, 33962>>, <<23728, 43484>>, <<30457, 35034>>,
       <<38974, 20818>>, <<43057, 50797>>, <<45059, 10184>>, <<48985, 32711>>,
       <<50912, 3059>>, <<54695, 37191>>, <<1738, 25425>>, <<5161, 10599>>,
       <<10167, 2693>>, <<11803, 8504>>, <<19756, 28156>>, <<21304, 3347>>,
       <<25866, 29524>>, <<30314, 2747>>, <<33218, 51502>>, <<37490, 11397>>,
       <<41663, 59553>>, <<43034, 26187>>, <<49739, 35696>>, <<51052, 20899>>,
       <<53650, 59417>>, <<54937, 1572>>, <<62478, 13701>>, <<4202, 41072>>,
       <<6564, 49430>>, <<7735, 27656>>, <<10056, 30540>>, <<13488, 48309>>,
       <<14620, 3251>>, <<20184, 43594>>, <<23452, 51791>>, <<26670, 28659>>,
       <<29839, 33518>>, <<30885, 25455>>, <<33992, 30740>>, <<36039, 520>>,
       <<37054, 65530>>, <<42064, 27883>>, <<48889, 41975>>, <<50801, 30962>>
    >>

RECURSIVE Zeros(_)
Zeros(n) == IF n = 0 THEN <<>> ELSE <<0>> \o Zeros(n - 1)

\* one padded 64-byte block: the message, 0x80, zeros, the 64-bit bit length
Sha256Pad(bytes) ==
    bytes \o <<128>> \o Zeros(55 - Len(bytes)) \o Zeros(6)
          \o <<(8 * Len(bytes)) \div 256, (8 * Len(bytes)) % 256>>

Sha256Words(block) ==
    [i \in 1..16 |-> <<block[4 * i - 3] * 256 + block[4 * i - 2],
                       block[4 * i - 1] * 256 + block[4 * i]>>]

SmallSigma0(x) == WXor(WXor(RotR(x, 7), RotR(x, 18)), ShR(x, 3))

SmallSigma1(x) == WXor(WXor(RotR(x, 17), RotR(x, 19)), ShR(x, 10))

BigSigma0(x) == WXor(WXor(RotR(x, 2), RotR(x, 13)), RotR(x, 22))

BigSigma1(x) == WXor(WXor(RotR(x, 6), RotR(x, 11)), RotR(x, 25))

Ch(e, f, g) == WXor(WAnd(e, f), WAnd(WNot(e), g))

Maj(a, b, c) == WXor(WXor(WAnd(a, b), WAnd(a, c)), WAnd(b, c))

RECURSIVE Sha256Schedule(_)
Sha256Schedule(w) ==
    IF Len(w) = 64 THEN w
    ELSE LET t == Len(w) + 1
             nw == WAdd(WAdd(w[t - 16], SmallSigma0(w[t - 15])),
                        WAdd(w[t - 7], SmallSigma1(w[t - 2])))
         IN  Sha256Schedule(Append(w, nw))

\* the 64 rounds; st = <<t, working variables a..h>>
RECURSIVE Sha256Rounds(_, _)
Sha256Rounds(st, w) ==
    IF st[1] > 64 THEN st[2]
    ELSE LET t  == st[1]
             s  == st[2]
             t1 == WAdd(WAdd(WAdd(s[8], BigSigma1(s[5])),
                             WAdd(Ch(s[5], s[6], s[7]), Sha256K[t])), w[t])
             t2 == WAdd(BigSigma0(s[1]), Maj(s[1], s[2], s[3]))
         IN  Sha256Rounds(<<t + 1, <<WAdd(t1, t2), s[1], s[2], s[3],
                                     WAdd(s[4], t1), s[5], s[6], s[7]>> >>, w)

\* Sha256::new(); update(bytes); finalize(): the 8 words of the digest
Sha256(bytes) ==
    LET w == Sha256Schedule(Sha256Words(Sha256Pad(bytes)))
        s == Sha256Rounds(<<1, Sha256H0>>, w)
    IN  <<WAdd(Sha256H0[1], s[1]), WAdd(Sha256H0[2], s[2]),
          WAdd(Sha256H0[3], s[3]), WAdd(Sha256H0[4], s[4]),
          WAdd(Sha256H0[5], s[5]), WAdd(Sha256H0[6], s[6]),
          WAdd(Sha256H0[7], s[7]), WAdd(Sha256H0[8], s[8])>>

HexDigits ==
    <<"0", "1", "2", "3", "4", "5", "6", "7",
      "8", "9", "a", "b", "c", "d", "e", "f">>

HexByte(b) == HexDigits[(b \div 16) + 1] \o HexDigits[(b % 16) + 1]

HexWord(x) ==
    HexByte(x[1] \div 256) \o HexByte(x[1] % 256)
        \o HexByte(x[2] \div 256) \o HexByte(x[2] % 256)

RECURSIVE HexEncode(_)
HexEncode(ws) ==
    IF ws = <<>> THEN "" ELSE HexWord(Head(ws)) \o HexEncode(Tail(ws))

\* a faulty hash_api_key, for sensitivity: only the first byte is hashed
hash_api_key_first_byte(key) ==
    HexEncode(Sha256(IF key = <<>> THEN key ELSE SubSeq(key, 1, 1)))

\* AuthService::hash_api_key: hex::encode(Sha256(key.as_bytes()))
hash_api_key(key) == HexEncode(Sha256(key))


(***************************************************************************)
(* Bounds of the model.                                                     *)
(***************************************************************************)
\* ObjectIds handed out by ObjectId::new() (records ever created)
MaxOid == 2

\* last instant of the clock, in days
MaxTime == 8

\* the clock advances by one of these numbers of days at a time
TickSteps == {3, 4}

\* Duration::from_days(7), the age at which a cache entry stops being served
TTL_DAYS == 7

\* the concurrent callers (tasks of the async runtime)
Procs == {"p1", "p2"}

\* plaintext keys as bytes: "k1", "k2"
Keys == {<<107, 49>>, <<107, 50>>}


(***************************************************************************)
(* Option, Result and the error kinds of errors.rs.                         *)
(***************************************************************************)
None == <<>>

Some(x) == <<x>>

Ok(v) == <<"Ok", v>>

Err(e) == <<"Err", e>>

Pending == <<"Pending">>

IsOk(r) == r[1] = "Ok"

IsErr(r, e) == r[1] = "Err" /\ r[2] = e

Unit == "unit"

AuthError ==
    {"MissingHeader", "InvalidFormat", "InvalidKey",
     "InsufficientPermissions", "Database"}

\* a faulty ApiKey, for sensitivity: every record is built with the admin flag set
ApiKeyAdmin(oid, key_hash, is_admin, created_at) ==
    [oid |-> oid, key_hash |-> key_hash, is_admin |-> TRUE,
     created_at |-> created_at, last_used_at |-> None]

\* models::ApiKey
ApiKey(oid, key_hash, is_admin, created_at) ==
    [oid |-> oid, key_hash |-> key_hash, is_admin |-> is_admin,
     created_at |-> created_at, last_used_at |-> None]

(***************************************************************************)
(* ApiKeyCache: a map from digest to CacheEntry, read at instant t.         *)
(***************************************************************************)
CacheEntry(api_key, t) == [api_key |-> api_key, cached_at |-> t]

\* a faulty Unexpired, for sensitivity: an entry as old as the TTL is served
UnexpiredInclusive(entry, t) == t - entry.cached_at <= TTL_DAYS

\* entry.cached_at.elapsed() < Duration::from_days(7)
Unexpired(entry, t) == t - entry.cached_at < TTL_DAYS

\* a faulty CacheGet, for sensitivity: every lookup misses
CacheGetMiss(c, key_hash, t) == None

\* a faulty CacheGet, for sensitivity: an entry is served whatever its age
CacheGetStale(c, key_hash, t) ==
    IF key_hash \in DOMAIN c THEN Some(c[key_hash].api_key) ELSE None

\* ApiKeyCache::get
CacheGet(c, key_hash, t) ==
    IF key_hash \notin DOMAIN c THEN None
    ELSE IF Unexpired(c[key_hash], t) THEN Some(c[key_hash].api_key)
    ELSE None

\* a faulty CacheInsert, for sensitivity: nothing is written
CacheInsertNoop(c, key_hash, api_key, t) == c

\* a faulty CacheInsert, for sensitivity: an entry already there is kept
CacheInsertIfAbsent(c, key_hash, api_key, t) ==
    IF key_hash \in DOMAIN c THEN c
    ELSE [d \in DOMAIN c \cup {key_hash} |->
            IF d = key_hash THEN [api_key |-> api_key, cached_at |-> t] ELSE c[d]]

\* ApiKeyCache::insert
CacheInsert(c, key_hash, api_key, t) ==
    [d \in DOMAIN c \cup {key_hash} |->
        IF d = key_hash THEN CacheEntry(api_key, t) ELSE c[d]]

\* a faulty CacheRemove, for sensitivity: nothing is purged
CacheRemoveNoop(c, key_hash) == c

\* a faulty CacheRemove, for sensitivity: the whole map is cleared
CacheRemoveClear(c, key_hash) == <<>>

\* ApiKeyCache::remove
CacheRemove(c, key_hash) == [d \in DOMAIN c \ {key_hash} |-> c[d]]

\* a faulty CacheCleanup, for sensitivity: an entry as old as the TTL is
\* retained
CacheCleanupLate(c, t) ==
    [d \in {x \in DOMAIN c : t - c[x].cached_at <= TTL_DAYS} |-> c[d]]

\* ApiKeyCache::cleanup_expired
CacheCleanup(c, t) == [d \in {x \in DOMAIN c : Unexpired(c[x], t)} |-> c[d]]

(***************************************************************************)
(* The collection "api_keys" of the store, as the set of its documents.     *)
(***************************************************************************)
\* find_one(doc! { "key_hash": h })
\* the first document of the collection, in insertion order, with digest h
FirstMatch(coll, h) ==
    CHOOSE r \in coll :
        /\ r.key_hash = h
        /\ \A r2 \in coll : r2.key_hash = h => r.oid <= r2.oid

FindOne(coll, h) ==
    IF \E r \in coll : r.key_hash = h
    THEN Some(FirstMatch(coll, h))
    ELSE None

\* insert_one into a collection with a unique index on key_hash: TRUE when
\* the collection accepts the document
InsertAccepted(coll, doc) ==
    /\ \A r \in coll : r.key_hash # doc.key_hash
    /\ \A r \in coll : r.oid # doc.oid

\* insert_one into a collection with no index but the one on _id
InsertAcceptedById(coll, doc) == \A r \in coll : r.oid # doc.oid

\* insert_one(&new_api_key, None): whether the collection accepts the document
InsertOne(coll, doc, indexed) ==
    IF indexed THEN InsertAccepted(coll, doc) ELSE InsertAcceptedById(coll, doc)

\* a faulty DeleteMatch, for sensitivity: the filter matches no document
DeleteMatchNothing(coll, h) == {}

\* delete_one(doc! { "key_hash": h }): the documents it deletes (at most one)
DeleteMatch(coll, h) ==
    IF \E r \in coll : r.key_hash = h
    THEN {FirstMatch(coll, h)}
    ELSE {}

\* a faulty UpdateLastUsed, for sensitivity: the update also sets the flag
UpdateLastUsedPromote(coll, id, t) ==
    {IF r.oid = id
     THEN [r EXCEPT !.last_used_at = Some(t), !.is_admin = TRUE]
     ELSE r : r \in coll}

\* update_one(doc! { "_id": id }, $set last_used_at)
UpdateLastUsed(coll, id, t) ==
    {IF r.oid = id THEN [r EXCEPT !.last_used_at = Some(t)] ELSE r : r \in coll}

(***************************************************************************)
(* State.                                                                   *)
(***************************************************************************)
VARIABLES store, cache, now, storeOk, nextOid, pc, call, loc, ret, obs, hist,
          digests, env, handle, heap

\* store    the documents of the collection "api_keys"
\* cache    ApiKeyCache.cache, shared by every clone of the service
\* now      the clock (Instant::now, SystemTime::now), in days
\* storeOk  FALSE while calls to the store fail
\* nextOid  the next ObjectId::new()
\* pc       where each caller stands in its operation
\* call     the operation each caller runs
\* loc      the record a caller holds across an await
\* ret      the result of each caller's operation
\* obs      what each caller's operation did and saw (history)
\* hist     what happened to each key (history)
\* env      the deployment: indexed, whether the collection api_keys has a
\*          unique index on key_hash; secret, the value of BOOTSTRAP_ADMIN_KEY
\*          if set; launched, whether rocket() has returned the server
\* handle   the AuthService handle each caller works through: the allocation
\*          its Arc points to
\* heap     the cache allocations other than the one AuthService::new() made
\*          (whose content is cache)
\* digests  hash_api_key of each key of the model, computed when the model
\*          starts and read wherever the code calls hash_api_key
vars == <<store, cache, now, storeOk, nextOid, pc, call, loc, ret, obs, hist, digests, env, handle, heap>>

\* the digests of the keys
HashTable == [k \in Keys |-> hash_api_key(k)]

\* Self::hash_api_key(api_key) at the top of validate, create and revoke
Digest(k) == IF k \in Keys THEN digests[k] ELSE hash_api_key(k)

\* main.rs: rocket::build().manage(auth_service).attach(db)
ServiceManaged == TRUE

DbAttached == TRUE

\* ev: the last change of the key: "created" at create's store insert and
\* again at its return, "revoked" at the return of a revoke that no create's
\* store insert has followed; oid, admin: the record created and the flag
\* asked for; seen: a validate returned it since; warm: a validate that
\* missed cached it and no revoke or cleanup removed the entry since; boot:
\* the record was created by ensure_admin_exists; at, by: when and by which
\* caller's handle an entry was last inserted for the key; via: the caller
\* whose handle last removed it
HistInit ==
    [ev |-> "none", oid |-> 0, admin |-> FALSE, seen |-> FALSE, warm |-> FALSE,
     boot |-> FALSE, at |-> 0, by |-> "none", via |-> "none"]

ObsInit ==
    [queried |-> FALSE, storeErr |-> FALSE, deleted |-> 0, fresh |-> None,
     hadEntry |-> FALSE, purged |-> FALSE,
     extracted |-> FALSE, looked |-> FALSE, updated |-> FALSE,
     updErr |-> FALSE, after |-> FALSE, down |-> FALSE, warm |-> FALSE,
     recreated |-> FALSE, valid |-> None, verr |-> None, check |-> Pending,
     count |-> None, before |-> None]

CallInit ==
    [op |-> "none", key |-> <<>>, is_admin |-> FALSE, route |-> "none",
     header |-> None]

\* the allocation made by AuthService::new() in rocket(); its content is the
\* variable cache
ManagedArc == 0

\* the deployment the specification describes: a unique index on key_hash,
\* no bootstrap secret, the server launched
EnvInit == [indexed |-> TRUE, secret |-> None, launched |-> TRUE]

Init ==
    /\ digests = HashTable
    /\ env = EnvInit
    /\ handle = [p \in Procs |-> Some(ManagedArc)]
    /\ heap = <<>>
    /\ store = {}
    /\ cache = <<>>
    /\ now = 0
    /\ storeOk = TRUE
    /\ nextOid = 1
    /\ pc = [p \in Procs |-> "idle"]
    /\ call = [p \in Procs |-> CallInit]
    /\ loc = [p \in Procs |-> None]
    /\ ret = [p \in Procs |-> Pending]
    /\ obs = [p \in Procs |-> ObsInit]
    /\ hist = [k \in Keys |-> HistInit]

\* errors.rs, impl Responder for AuthError: the status of the response and
\* the JSON body json!({"error": message, "status": status.code})
respond_to(e) ==
    LET sm == CASE e = "MissingHeader" -> <<401, "Missing Authorization header">>
                [] e = "InvalidFormat" -> <<401, "Invalid Authorization header format">>
                [] e = "InvalidKey" -> <<401, "Invalid API key">>
                [] e = "InsufficientPermissions" -> <<403, "Insufficient permissions">>
                [] e = "Database" -> <<500, "Internal server error">>
    IN  [status |-> sm[1], body |-> [error |-> sm[2], status |-> sm[1]]]

(***************************************************************************)
(* The request guards (impl FromRequest for User, for AdminUser) and the    *)
(* capability check.                                                        *)
(***************************************************************************)
\* "Bearer "
BearerPrefix == <<66, 101, 97, 114, 101, 114, 32>>

\* str::strip_prefix
StripPrefix(s, pre) ==
    IF Len(s) >= Len(pre) /\ SubSeq(s, 1, Len(pre)) = pre
    THEN Some(SubSeq(s, Len(pre) + 1, Len(s)))
    ELSE None

\* a faulty extract_bearer_token, for sensitivity: the scheme is matched
\* without regard to case
extract_bearer_token_any_case(auth_header) ==
    LET lower == <<98>> \o SubSeq(BearerPrefix, 2, Len(BearerPrefix))
        t == StripPrefix(auth_header, BearerPrefix)
        u == StripPrefix(auth_header, lower)
    IN  IF t # None THEN Ok(t[1])
        ELSE IF u # None THEN Ok(u[1])
        ELSE Err("InvalidFormat")

\* AuthService::extract_bearer_token
extract_bearer_token(auth_header) ==
    LET t == StripPrefix(auth_header, BearerPrefix)
    IN  IF t = None THEN Err("InvalidFormat") ELSE Ok(t[1])

\* the Authorization header values of the requests: "Bearer k1", "Bearer k2",
\* "bearer k1", "Basic k1", "Bearerk1", "k1", ""
HeaderValues ==
    {BearerPrefix \o k : k \in Keys}
        \cup {<<98, 101, 97, 114, 101, 114, 32, 107, 49>>,
              <<66, 97, 115, 105, 99, 32, 107, 49>>,
              <<66, 101, 97, 114, 101, 114, 107, 49>>,
              <<107, 49>>,
              <<>>}

Headers == {None} \cup {Some(v) : v \in HeaderValues}

\* the routes: a handler taking User, a handler taking User and calling
\* require_admin, a handler taking AdminUser
Routes == {"user", "admin_check", "admin_guard"}

Success(kind, api_key) == <<"Success", kind, api_key>>

Error(status, e) == <<"Error", status, e>>

IsSuccess(o) == o[1] = "Success"

\* User::is_admin
is_admin(user) == user.is_admin

\* User::require_admin
require_admin(user) ==
    IF is_admin(user) THEN Ok(Unit) ELSE Err("InsufficientPermissions")

\* a faulty AdminUserFromRequest, for sensitivity: the admin flag is not looked at
AdminUserFromRequestUnchecked(o) ==
    IF IsSuccess(o) THEN Success("AdminUser", o[3]) ELSE o

\* AdminUser::from_request, given the outcome of User::from_request
AdminUserFromRequest(o) ==
    IF IsSuccess(o)
    THEN IF is_admin(o[3]) THEN Success("AdminUser", o[3])
         ELSE Error(403, "InsufficientPermissions")
    ELSE o

\* the outcome of the guard a route asks for
GuardOutcome(route, o) ==
    IF route = "admin_guard" THEN AdminUserFromRequest(o) ELSE o

(***************************************************************************)
(* The RwLock of the cache map.                                             *)
(***************************************************************************)
\* the positions at which a caller waits for the store, or has its answer
\* and has not run on
AwaitPositions == {"v_find", "v_insert", "c_cache", "r_remove", "e_create", "g_update"}

\* a faulty LockAt, for sensitivity: validate keeps the read guard of its
\* lookup until it returns
LockAtKeptOverFind(pos) ==
    IF pos \in {"v_find", "v_insert"} THEN "read" ELSE "none"

\* the guard on the map a caller holds while it stands at position pos: the
\* guards of get, insert, remove and cleanup_expired are locals of these
\* functions, dropped when they return (lines 66, 84, 95, 104), and none of
\* them awaits
LockAt(pos) == "none"

\* self.cache.read() of caller p gets the lock: no other caller holds the
\* write guard
CanRead(p) == \A q \in Procs \ {p} : LockAt(pc[q]) # "write"

\* self.cache.write() of caller p gets the lock: no guard is held
CanWrite(p) == \A q \in Procs : LockAt(pc[q]) = "none"

(***************************************************************************)
(* AuthService::validate_api_key.  Its three accesses to shared state are   *)
(* the cache lookup, the store query (an await) and the cache insert.       *)
(***************************************************************************)
\* a faulty ValidateFailed, for sensitivity: every failure of validate is
\* reported as InvalidKey
ValidateFailedAsInvalidKey(e) == Error(401, "InvalidKey")

\* line 411: Err(e) => Outcome::Error((Status::Unauthorized, e))
ValidateFailed(e) == Error(401, e)

\* validate_api_key returns res to its caller: a direct caller gets it, the
\* User guard goes on to update_last_used or fails with the same error
ValidateReturn(p, route, k, res, o) ==
    /\ obs' = [obs EXCEPT ![p] =
                 [o EXCEPT !.valid = IF IsOk(res) THEN Some(res[2]) ELSE None,
                           !.verr = IF IsOk(res) THEN None ELSE Some(res[2])]]
    /\ digests' = digests
    /\ UNCHANGED <<env, handle, heap>>
    /\ hist' = IF IsOk(res) /\ k \in Keys
               THEN [hist EXCEPT ![k].seen = TRUE] ELSE hist
    /\ IF route = "none"
       THEN /\ pc' = [pc EXCEPT ![p] = "done"]
            /\ ret' = [ret EXCEPT ![p] = res]
            /\ loc' = [loc EXCEPT ![p] = None]
       ELSE IF IsOk(res)
       THEN /\ pc' = [pc EXCEPT ![p] = "g_update"]
            /\ ret' = [ret EXCEPT ![p] = Pending]
            /\ loc' = [loc EXCEPT ![p] = Some(res[2])]
       ELSE /\ pc' = [pc EXCEPT ![p] = "done"]
            /\ ret' = [ret EXCEPT ![p] = GuardOutcome(route, ValidateFailed(res[2]))]
            /\ loc' = [loc EXCEPT ![p] = None]

\* lines 212-216: hash the key, look it up in the cache, return on a hit
ValidateLookup(p, route, k, o) ==
    LET key_hash == Digest(k)
        cached   == CacheGet(cache, key_hash, now)
        o1 == [o EXCEPT !.looked = TRUE,
                        !.fresh = IF key_hash \in DOMAIN cache
                                     /\ now - cache[key_hash].cached_at < TTL_DAYS
                                  THEN Some(cache[key_hash].api_key) ELSE None,
                        !.hadEntry = key_hash \in DOMAIN cache,
                        !.warm = k \in Keys /\ hist[k].warm,
                        !.after = k \in Keys /\ hist[k].ev = "revoked",
                        !.down = ~storeOk]
    IN  IF cached # None
        THEN ValidateReturn(p, route, k, Ok(cached[1]), o1)
        ELSE /\ pc' = [pc EXCEPT ![p] = "v_find"]
             /\ ret' = [ret EXCEPT ![p] = Pending]
             /\ loc' = [loc EXCEPT ![p] = None]
             /\ obs' = [obs EXCEPT ![p] = o1]
             /\ digests' = digests
             /\ UNCHANGED <<env, handle, heap>>
             /\ hist' = hist

ValidateStart(p, k) ==
    /\ pc[p] = "idle"
    /\ call' = [call EXCEPT ![p] = [CallInit EXCEPT !.op = "validate", !.key = k]]
    /\ CanRead(p)
    /\ ValidateLookup(p, "none", k, ObsInit)
    /\ UNCHANGED <<store, cache, now, storeOk, nextOid>>

\* a faulty FindOneResult, for sensitivity: a missing document is reported as Database
FindOneResultSwapped(answered, found) ==
    IF ~answered THEN Err("Database")
    ELSE IF found = None THEN Err("Database")
    ELSE Ok(found[1])

\* lines 221-225: .await.map_err(|_| AuthError::Database)?
\* .ok_or(AuthError::InvalidKey)?, on the store's answer (answered: the
\* query did not error; found: the document, if any)
FindOneResult(answered, found) ==
    IF ~answered THEN Err("Database")
    ELSE IF found = None THEN Err("InvalidKey")
    ELSE Ok(found[1])

\* lines 218-225: find_one by digest
ValidateFind(p) ==
    /\ pc[p] = "v_find"
    /\ LET k  == call[p].key
           o1 == [obs[p] EXCEPT !.queried = TRUE, !.storeErr = ~storeOk]
           api_key == FindOneResult(storeOk, FindOne(store, Digest(k)))
       IN  IF ~IsOk(api_key)
           THEN ValidateReturn(p, call[p].route, k, api_key, o1)
           ELSE /\ pc' = [pc EXCEPT ![p] = "v_insert"]
                /\ loc' = [loc EXCEPT ![p] = Some(api_key[2])]
                /\ obs' = [obs EXCEPT ![p] = o1]
                /\ UNCHANGED <<ret, hist, digests, env, handle, heap>>
    /\ UNCHANGED <<store, cache, now, storeOk, nextOid, call>>

\* lines 227-229: cache the record found and return it
ValidateInsert(p) ==
    /\ pc[p] = "v_insert"
    /\ CanWrite(p)
    /\ LET k == call[p].key
           api_key == loc[p][1]
           c1 == CacheInsert(cache, Digest(k), api_key, now)
       IN  /\ cache' = c1
           /\ obs' = [obs EXCEPT ![p].valid = Some(api_key)]
           /\ digests' = digests
           /\ UNCHANGED <<env, handle, heap>>
           /\ hist' = IF k \in Keys
                      THEN [hist EXCEPT ![k].seen = TRUE,
                                        ![k].warm = Digest(k) \in DOMAIN c1]
                      ELSE hist
           /\ IF call[p].route = "none"
              THEN /\ pc' = [pc EXCEPT ![p] = "done"]
                   /\ ret' = [ret EXCEPT ![p] = Ok(api_key)]
                   /\ loc' = [loc EXCEPT ![p] = None]
              ELSE /\ pc' = [pc EXCEPT ![p] = "g_update"]
                   /\ UNCHANGED <<ret, loc>>
    /\ UNCHANGED <<store, now, storeOk, nextOid, call>>

(***************************************************************************)
(* AuthService::create_api_key and AuthService::revoke_api_key.             *)
(***************************************************************************)
\* a faulty InsertOneResult, for sensitivity: the error of insert_one is
\* dropped
InsertOneResultIgnored(accepted, doc) == Ok(doc)

\* lines 305-308: insert_one(..).await.map_err(|_| AuthError::Database)?
\* (accepted: the store took the document)
InsertOneResult(accepted, doc) ==
    IF accepted THEN Ok(doc) ELSE Err("Database")

\* lines 294-308: build the record and insert_one it; an error is Database
\* (o: what the caller has done so far)
CreateInsert(p, k, a, o) ==
    /\ nextOid <= MaxOid
    /\ nextOid' = nextOid + 1
    /\ LET new_api_key == ApiKey(nextOid, Digest(k), a, now)
           o1 == [o EXCEPT !.queried = TRUE,
                           !.before = IF o.before = None
                                      THEN Some([store |-> store,
                                                 cache |-> cache,
                                                 nextOid |-> nextOid])
                                      ELSE o.before]
           accepted == storeOk /\ InsertOne(store, new_api_key, env.indexed)
           inserted == InsertOneResult(accepted, new_api_key)
       IN  IF IsOk(inserted)
           THEN /\ store' = IF accepted THEN store \cup {new_api_key} ELSE store
                /\ pc' = [pc EXCEPT ![p] = "c_cache"]
                /\ loc' = [loc EXCEPT ![p] = Some(new_api_key)]
                /\ ret' = [ret EXCEPT ![p] = Pending]
                /\ digests' = digests
                /\ UNCHANGED <<env, handle, heap>>
                /\ hist' = [hist EXCEPT ![k] = [ev |-> "created",
                                                oid |-> new_api_key.oid,
                                                admin |-> a, seen |-> FALSE,
                                                warm |-> @.warm,
                                                boot |-> FALSE,
                                                at |-> @.at, by |-> @.by,
                                                via |-> @.via]]
                /\ obs' = [q \in Procs |->
                            IF q = p THEN o1
                            ELSE IF call[q].key = k
                            THEN [obs[q] EXCEPT !.after = FALSE,
                                                !.recreated = TRUE]
                            ELSE obs[q]]
           ELSE /\ store' = store
                /\ pc' = [pc EXCEPT ![p] = "done"]
                /\ loc' = [loc EXCEPT ![p] = None]
                /\ ret' = [ret EXCEPT ![p] = inserted]
                /\ digests' = digests
                /\ UNCHANGED <<env, handle, heap>>
                /\ hist' = hist
                /\ obs' = [obs EXCEPT ![p] = [o1 EXCEPT !.storeErr = TRUE]]
    /\ UNCHANGED <<cache, now, storeOk>>

\* create_api_key called by a caller of the service
CreateInsertOne(p, k, a) ==
    /\ pc[p] = "idle"
    /\ call' = [call EXCEPT ![p] = [CallInit EXCEPT !.op = "create", !.key = k,
                                                   !.is_admin = a]]
    /\ CreateInsert(p, k, a, ObsInit)

\* lines 310-312: cache the new record and return it; ensure_admin_exists,
\* lines 270-273 and 285, returns Ok(()) when its create_api_key returned Ok
CreateCache(p) ==
    /\ pc[p] = "c_cache"
    /\ CanWrite(p)
    /\ cache' = CacheInsert(cache, Digest(call[p].key), loc[p][1], now)
    /\ pc' = [pc EXCEPT ![p] = "done"]
    /\ ret' = [ret EXCEPT ![p] = IF call[p].op = "ensure"
                                  THEN Ok(Unit) ELSE Ok(loc[p][1])]
    /\ loc' = [loc EXCEPT ![p] = None]
    /\ digests' = digests
    /\ UNCHANGED <<env, handle, heap>>
    /\ hist' = [hist EXCEPT ![call[p].key].ev = "created",
                            ![call[p].key].oid = loc[p][1].oid,
                            ![call[p].key].boot = (call[p].op = "ensure")]
    /\ UNCHANGED <<store, now, storeOk, nextOid, call, obs>>

\* lines 316-323: delete_one by digest; an error returns Database at once
RevokeDeleteOne(p, k) ==
    /\ pc[p] = "idle"
    /\ call' = [call EXCEPT ![p] = [CallInit EXCEPT !.op = "revoke", !.key = k]]
    /\ LET key_hash == Digest(k)
           gone == DeleteMatch(store, key_hash)
           o1 == [ObsInit EXCEPT !.queried = TRUE,
                                 !.hadEntry = key_hash \in DOMAIN cache]
       IN  IF ~storeOk
           THEN /\ store' = store
                /\ pc' = [pc EXCEPT ![p] = "done"]
                /\ ret' = [ret EXCEPT ![p] = Err("Database")]
                /\ obs' = [obs EXCEPT ![p] =
                             [o1 EXCEPT !.storeErr = TRUE,
                                        !.purged = key_hash \notin DOMAIN cache]]
           ELSE /\ store' = store \ gone
                /\ pc' = [pc EXCEPT ![p] = "r_remove"]
                /\ ret' = [ret EXCEPT ![p] = Pending]
                /\ obs' = [obs EXCEPT ![p] =
                             [o1 EXCEPT !.deleted = Cardinality(gone)]]
    /\ UNCHANGED <<cache, now, storeOk, nextOid, loc, hist, digests, env, handle, heap>>

\* lines 325-327: purge the digest from the cache and return
RevokeRemove(p) ==
    /\ pc[p] = "r_remove"
    /\ CanWrite(p)
    /\ LET k == call[p].key
           key_hash == Digest(k)
           c1 == CacheRemove(cache, key_hash)
       IN  /\ cache' = c1
           /\ obs' = [obs EXCEPT ![p].hadEntry = key_hash \in DOMAIN cache,
                                 ![p].purged = key_hash \notin DOMAIN c1]
           /\ digests' = digests
           /\ UNCHANGED <<env, handle, heap>>
           /\ hist' = IF obs[p].recreated
                      THEN [hist EXCEPT ![k].warm = @ /\ key_hash \in DOMAIN c1]
                      ELSE [hist EXCEPT ![k].ev = "revoked", ![k].oid = 0,
                                        ![k].boot = FALSE,
                                        ![k].warm = @ /\ key_hash \in DOMAIN c1]
    /\ pc' = [pc EXCEPT ![p] = "done"]
    /\ ret' = [ret EXCEPT ![p] = Ok(Unit)]
    /\ UNCHANGED <<store, now, storeOk, nextOid, call, loc>>

(***************************************************************************)
(* AuthService::ensure_admin_exists.                                        *)
(***************************************************************************)
\* a faulty EnsureNeedsCreate, for sensitivity: the count is not looked at
EnsureNeedsCreateAlways(admin_count, secret) == secret # None

\* lines 266-267: admin_count == 0 and BOOTSTRAP_ADMIN_KEY is set
EnsureNeedsCreate(admin_count, secret) == admin_count = 0 /\ secret # None

\* a faulty ensure_create_args, for sensitivity: the flag is not set
ensure_create_args_plain(admin_key) == <<admin_key, FALSE>>

\* line 269: self.create_api_key(&admin_key, true, db)
ensure_create_args(admin_key) == <<admin_key, TRUE>>

\* a faulty CountAdmins, for sensitivity: every document is counted
CountAdminsAll(coll) == Cardinality(coll)

\* count_documents(doc! { "is_admin": true })
CountAdmins(coll) == Cardinality({r \in coll : r.is_admin})

\* lines 259-267 and 279-285: count the admin records; a store error is
\* Database; with an admin, or without the secret, return Ok(())
EnsureCount(p) ==
    /\ pc[p] = "idle"
    /\ LET admin_count == CountAdmins(store)
           o1 == [ObsInit EXCEPT !.queried = TRUE,
                                 !.before = Some([store |-> store,
                                                  cache |-> cache,
                                                  nextOid |-> nextOid])]
       IN  IF ~storeOk
           THEN /\ call' = [call EXCEPT ![p] = [CallInit EXCEPT !.op = "ensure"]]
                /\ pc' = [pc EXCEPT ![p] = "done"]
                /\ ret' = [ret EXCEPT ![p] = Err("Database")]
                /\ obs' = [obs EXCEPT ![p] = [o1 EXCEPT !.storeErr = TRUE]]
           ELSE IF EnsureNeedsCreate(admin_count, env.secret)
           THEN /\ call' = [call EXCEPT ![p] =
                              [CallInit EXCEPT
                                  !.op = "ensure",
                                  !.key = ensure_create_args(env.secret[1])[1],
                                  !.is_admin = ensure_create_args(env.secret[1])[2]]]
                /\ pc' = [pc EXCEPT ![p] = "e_create"]
                /\ ret' = [ret EXCEPT ![p] = Pending]
                /\ obs' = [obs EXCEPT ![p] =
                             [o1 EXCEPT !.count = Some(admin_count)]]
           ELSE /\ call' = [call EXCEPT ![p] = [CallInit EXCEPT !.op = "ensure"]]
                /\ pc' = [pc EXCEPT ![p] = "done"]
                /\ ret' = [ret EXCEPT ![p] = Ok(Unit)]
                /\ obs' = [obs EXCEPT ![p] =
                             [o1 EXCEPT !.count = Some(admin_count)]]
    /\ UNCHANGED <<store, cache, now, storeOk, nextOid, loc, hist, digests, env, handle, heap>>

\* lines 269-278: create_api_key(&admin_key, true, db); its error is returned
EnsureCreate(p) ==
    /\ pc[p] = "e_create"
    /\ call' = call
    /\ CreateInsert(p, call[p].key, call[p].is_admin,
                    [obs[p] EXCEPT !.queried = FALSE])

\* AuthService::cleanup_cache, called by an external periodic trigger
CleanupCache ==
    /\ \A p \in Procs : CanWrite(p)
    /\ cache' = CacheCleanup(cache, now)
    /\ cache' # cache
    /\ digests' = digests
    /\ UNCHANGED <<env, handle, heap>>
    /\ hist' = [k \in Keys |->
                  [hist[k] EXCEPT !.warm = @ /\ Digest(k) \in DOMAIN cache']]
    /\ UNCHANGED <<store, now, storeOk, nextOid, pc, call, loc, ret, obs>>

\* the caller takes its result; what the operation did is forgotten
Reset(p) ==
    /\ pc[p] = "done"
    /\ pc' = [pc EXCEPT ![p] = "idle"]
    /\ call' = [call EXCEPT ![p] = CallInit]
    /\ loc' = [loc EXCEPT ![p] = None]
    /\ ret' = [ret EXCEPT ![p] = Pending]
    /\ obs' = [obs EXCEPT ![p] = ObsInit]
    /\ UNCHANGED <<store, cache, now, storeOk, nextOid, hist, digests, env, handle, heap>>

(***************************************************************************)
(* The environment: time passes, the store fails and recovers.              *)
(***************************************************************************)
Tick ==
    /\ \E d \in TickSteps :
          /\ now + d <= MaxTime
          /\ now' = now + d
    /\ UNCHANGED <<store, cache, storeOk, nextOid, pc, call, loc, ret, obs, hist, digests, env, handle, heap>>

StoreFail ==
    /\ storeOk
    /\ storeOk' = FALSE
    /\ UNCHANGED <<store, cache, now, nextOid, pc, call, loc, ret, obs, hist, digests, env, handle, heap>>

StoreRecover ==
    /\ ~storeOk
    /\ storeOk' = TRUE
    /\ UNCHANGED <<store, cache, now, nextOid, pc, call, loc, ret, obs, hist, digests, env, handle, heap>>

(***************************************************************************)
(* User::from_request and the handlers behind it.                           *)
(***************************************************************************)
\* the guard fails before validate_api_key is reached
GuardFail(p, route, o, ob) ==
    /\ pc' = [pc EXCEPT ![p] = "done"]
    /\ ret' = [ret EXCEPT ![p] = GuardOutcome(route, o)]
    /\ loc' = [loc EXCEPT ![p] = None]
    /\ obs' = [obs EXCEPT ![p] = ob]
    /\ digests' = digests
    /\ UNCHANGED <<env, handle, heap>>
    /\ hist' = hist

\* a faulty MissingHeaderOutcome, for sensitivity: the wrong error kind
MissingHeaderAsFormat == Error(401, "InvalidFormat")

\* lines 387-392: no Authorization header
MissingHeaderOutcome == Error(401, "MissingHeader")

\* lines 365-400: the managed service and the database, the Authorization
\* header, the bearer token, and validate_api_key up to its first await
ReqStart(p, hdr, route) ==
    /\ pc[p] = "idle"
    /\ IF ~ServiceManaged \/ ~DbAttached
       THEN /\ call' = [call EXCEPT ![p] = [CallInit EXCEPT !.op = "request",
                                             !.route = route, !.header = hdr]]
            /\ GuardFail(p, route, Error(500, "Database"), ObsInit)
       ELSE IF hdr = None
       THEN /\ call' = [call EXCEPT ![p] = [CallInit EXCEPT !.op = "request",
                                             !.route = route, !.header = hdr]]
            /\ GuardFail(p, route, MissingHeaderOutcome, ObsInit)
       ELSE LET api_key == extract_bearer_token(hdr[1])
                ob == [ObsInit EXCEPT !.extracted = TRUE]
            IN  IF ~IsOk(api_key)
                THEN /\ call' = [call EXCEPT ![p] =
                                   [CallInit EXCEPT !.op = "request",
                                        !.route = route, !.header = hdr]]
                     /\ GuardFail(p, route, Error(401, api_key[2]), ob)
                ELSE /\ call' = [call EXCEPT ![p] =
                                   [CallInit EXCEPT !.op = "request",
                                        !.route = route, !.header = hdr,
                                        !.key = api_key[2]]]
                     /\ CanRead(p)
                     /\ ValidateLookup(p, route, api_key[2], ob)
    /\ UNCHANGED <<store, cache, now, storeOk, nextOid>>

\* update_last_used, lines 245-250: update_one(..).await.map_err(|_| Database)?
\* and Ok(()) (answered: the store call did not error)
update_last_used_result(answered) ==
    IF answered THEN Ok(Unit) ELSE Err("Database")

\* a faulty AfterUpdate, for sensitivity: a failed update fails the request
AfterUpdatePropagated(upd, key_record) ==
    IF IsOk(upd) THEN Success("User", key_record) ELSE Error(401, upd[2])

\* lines 405-409: let _ = <the update's result>; Outcome::Success(User { .. })
AfterUpdate(upd, key_record) == Success("User", key_record)

\* lines 401-410: update_last_used is awaited and its result dropped, then the
\* guard succeeds with the validated record
GuardUpdate(p) ==
    /\ pc[p] = "g_update"
    /\ LET key_record == loc[p][1]
           upd == update_last_used_result(storeOk)
           o == GuardOutcome(call[p].route, AfterUpdate(upd, key_record))
       IN  /\ store' = IF storeOk
                       THEN UpdateLastUsed(store, key_record.oid, now)
                       ELSE store
           /\ obs' = [obs EXCEPT ![p].updated = TRUE, ![p].updErr = ~IsOk(upd)]
           /\ ret' = [ret EXCEPT ![p] = o]
           /\ pc' = [pc EXCEPT ![p] = IF IsSuccess(o) /\ call[p].route = "admin_check"
                                      THEN "handler" ELSE "done"]
    /\ loc' = [loc EXCEPT ![p] = None]
    /\ UNCHANGED <<cache, now, storeOk, nextOid, call, hist, digests, env, handle, heap>>

\* handlers/games.rs line 224: user.require_admin() at the top of a handler
Handler(p) ==
    /\ pc[p] = "handler"
    /\ obs' = [obs EXCEPT ![p].check = require_admin(ret[p][3])]
    /\ pc' = [pc EXCEPT ![p] = "done"]
    /\ UNCHANGED <<store, cache, now, storeOk, nextOid, call, loc, ret, hist, digests, env, handle, heap>>

\* one step of caller p through the service
ServiceStep(p) ==
    \/ \E k \in Keys : ValidateStart(p, k)
    \/ ValidateFind(p)
    \/ ValidateInsert(p)
    \/ \E k \in Keys, a \in BOOLEAN : CreateInsertOne(p, k, a)
    \/ CreateCache(p)
    \/ \E k \in Keys : RevokeDeleteOne(p, k)
    \/ RevokeRemove(p)

EnvStep ==
    \/ CleanupCache
    \/ Tick
    \/ StoreFail
    \/ StoreRecover

\* a finished operation is taken by its caller before anything else moves
NoneDone == \A q \in Procs : pc[q] # "done"

\* concurrent callers of one service, within one instant of the clock
Next ==
    \/ \E p \in Procs : Reset(p)
    \/ NoneDone /\ \E p \in Procs : ServiceStep(p)
    \/ NoneDone /\ (StoreFail \/ StoreRecover)

Spec == Init /\ [][Next]_vars

\* the stores with no admin record: empty, or one regular key made before
\* (its ObjectId is none of those handed out from here on)
RegularStores ==
    {{}} \cup {{ApiKey(0, Digest(k), FALSE, 0)} : k \in Keys}

\* two instances of the server about to run ensure_admin_exists with the
\* same BOOTSTRAP_ADMIN_KEY against one store that holds no admin
RaceInit ==
    /\ digests = HashTable
    /\ env \in {[EnvInit EXCEPT !.secret = Some(k)] : k \in Keys}
    /\ handle = [p \in Procs |-> Some(ManagedArc)]
    /\ heap = <<>>
    /\ store \in RegularStores
    /\ cache = <<>>
    /\ now \in {0, 3}
    /\ storeOk = TRUE
    /\ nextOid = 1
    /\ pc = [p \in Procs |-> "idle"]
    /\ call = [p \in Procs |-> CallInit]
    /\ loc = [p \in Procs |-> None]
    /\ ret = [p \in Procs |-> Pending]
    /\ obs = [p \in Procs |-> ObsInit]
    /\ hist = [k \in Keys |-> HistInit]

\* concurrent calls of ensure_admin_exists, the store answering
RaceNext ==
    \/ \E p \in Procs : Reset(p)
    \/ NoneDone /\ \E p \in Procs : EnsureCount(p)
    \/ NoneDone /\ \E p \in Procs : EnsureCreate(p)
    \/ NoneDone /\ \E p \in Procs : CreateCache(p)

RaceSpec == RaceInit /\ [][RaceNext]_vars

\* one step of caller p through the service, on the key k
KeyStep(p, k) ==
    \/ ValidateStart(p, k)
    \/ ValidateFind(p)
    \/ ValidateInsert(p)
    \/ \E a \in BOOLEAN : CreateInsertOne(p, k, a)
    \/ CreateCache(p)
    \/ RevokeDeleteOne(p, k)
    \/ RevokeRemove(p)

\* concurrent callers on the key "k1" while time passes
AgeNext ==
    \/ \E p \in Procs : Reset(p)
    \/ NoneDone /\ \E p \in Procs : KeyStep(p, <<107, 49>>)
    \/ NoneDone /\ Tick

AgeSpec == Init /\ [][AgeNext]_vars

\* the same callers, one operation at a time
SeqNext ==
    \/ \E p \in Procs : Reset(p)
    \/ \E p \in Procs :
          /\ \A q \in Procs \ {p} : pc[q] = "idle"
          /\ ServiceStep(p)
    \/ NoneDone /\ EnvStep

SeqSpec == Init /\ [][SeqNext]_vars

\* the service over a collection without the unique index on key_hash (the
\* first insert_one makes api_keys; no code of the repository creates an
\* index, so the index is the deployment's to provide)
FreshInit ==
    /\ digests = HashTable
    /\ env = [EnvInit EXCEPT !.indexed = FALSE]
    /\ handle = [p \in Procs |-> Some(ManagedArc)]
    /\ heap = <<>>
    /\ store = {}
    /\ cache = <<>>
    /\ now = 0
    /\ storeOk = TRUE
    /\ nextOid = 1
    /\ pc = [p \in Procs |-> "idle"]
    /\ call = [p \in Procs |-> CallInit]
    /\ loc = [p \in Procs |-> None]
    /\ ret = [p \in Procs |-> Pending]
    /\ obs = [p \in Procs |-> ObsInit]
    /\ hist = [k \in Keys |-> HistInit]

FreshSpec == FreshInit /\ [][SeqNext]_vars

\* the bootstrap secrets a deployment may set
Secrets == {None} \cup {Some(k) : k \in Keys}

BootInit ==
    /\ digests = HashTable
    /\ env \in {[EnvInit EXCEPT !.secret = s] : s \in Secrets}
    /\ handle = [p \in Procs |-> Some(ManagedArc)]
    /\ heap = <<>>
    /\ store = {}
    /\ cache = <<>>
    /\ now = 0
    /\ storeOk = TRUE
    /\ nextOid = 1
    /\ pc = [p \in Procs |-> "idle"]
    /\ call = [p \in Procs |-> CallInit]
    /\ loc = [p \in Procs |-> None]
    /\ ret = [p \in Procs |-> Pending]
    /\ obs = [p \in Procs |-> ObsInit]
    /\ hist = [k \in Keys |-> HistInit]

\* one step of caller p through ensure_admin_exists
EnsureStep(p) ==
    \/ EnsureCount(p)
    \/ EnsureCreate(p)

\* the operations of the service and ensure_admin_exists, one at a time
BootNext ==
    \/ \E p \in Procs : Reset(p)
    \/ \E p \in Procs :
          /\ \A q \in Procs \ {p} : pc[q] = "idle"
          /\ (ServiceStep(p) \/ EnsureStep(p))
    \/ NoneDone /\ EnvStep

BootSpec == BootInit /\ [][BootNext]_vars

\* the server with keys already in the store and an empty cache
SeedStores ==
    {s1 \cup s2 :
        s1 \in {{}} \cup {{ApiKey(1, Digest(<<107, 49>>), a, 0)} : a \in BOOLEAN},
        s2 \in {{}} \cup {{ApiKey(2, Digest(<<107, 50>>), a, 0)} : a \in BOOLEAN}}

GuardInit ==
    /\ digests = HashTable
    /\ env = EnvInit
    /\ handle = [p \in Procs |-> Some(ManagedArc)]
    /\ heap = <<>>
    /\ store \in SeedStores
    /\ cache = <<>>
    /\ now = 0
    /\ storeOk = TRUE
    /\ nextOid = MaxOid + 1
    /\ pc = [p \in Procs |-> "idle"]
    /\ call = [p \in Procs |-> CallInit]
    /\ loc = [p \in Procs |-> None]
    /\ ret = [p \in Procs |-> Pending]
    /\ obs = [p \in Procs |-> ObsInit]
    /\ hist = [k \in Keys |-> HistInit]

\* one step of a request of caller p
GuardStep(p) ==
    \/ \E hdr \in Headers, route \in Routes : ReqStart(p, hdr, route)
    \/ ValidateFind(p)
    \/ ValidateInsert(p)
    \/ GuardUpdate(p)
    \/ Handler(p)

\* requests against the server, one at a time, while the store fails and
\* recovers
GuardNext ==
    \/ \E p \in Procs : Reset(p)
    \/ \E p \in Procs :
          /\ \A q \in Procs \ {p} : pc[q] = "idle"
          /\ GuardStep(p)
    \/ NoneDone /\ (StoreFail \/ StoreRecover)

GuardSpec == GuardInit /\ [][GuardNext]_vars

(***************************************************************************)
(* hash_api_key applied to plaintexts by two callers.                       *)
(***************************************************************************)
\* the longest plaintext hashed, in bytes
MaxKeyLen == 2

\* the bytes of the plaintexts: "k", "1", "2"
KeyBytes == {107, 49, 50}

\* the plaintexts: every string of at most MaxKeyLen of these bytes, and
\* "abc"
Plaintexts ==
    UNION {[1..n -> KeyBytes] : n \in 0..MaxKeyLen} \cup {<<97, 98, 99>>}

HashInit ==
    /\ digests = [k \in Plaintexts |-> hash_api_key(k)]
    /\ env = EnvInit
    /\ handle = [p \in Procs |-> Some(ManagedArc)]
    /\ heap = <<>>
    /\ store = {}
    /\ cache = <<>>
    /\ now = 0
    /\ storeOk = TRUE
    /\ nextOid = 1
    /\ pc = [p \in Procs |-> "idle"]
    /\ call = [p \in Procs |-> CallInit]
    /\ loc = [p \in Procs |-> None]
    /\ ret = [p \in Procs |-> Pending]
    /\ obs = [p \in Procs |-> ObsInit]
    /\ hist = [k \in Keys |-> HistInit]

\* caller p hashes the plaintext k (digests[k] is hash_api_key(k))
HashApiKey(p, k) ==
    /\ pc[p] = "idle"
    /\ call' = [call EXCEPT ![p] = [CallInit EXCEPT !.op = "hash", !.key = k]]
    /\ ret' = [ret EXCEPT ![p] = Ok(digests[k])]
    /\ pc' = [pc EXCEPT ![p] = "done"]
    /\ UNCHANGED <<store, cache, now, storeOk, nextOid, loc, obs, hist, digests,
                   env, handle, heap>>

HashNext ==
    \/ \E p \in Procs : Reset(p)
    \/ \E p \in Procs, k \in Plaintexts : HashApiKey(p, k)

HashSpec == HashInit /\ [][HashNext]_vars

(***************************************************************************)
(* Every operation that touches the records: the service, the bootstrap,    *)
(* requests through the guard (with update_last_used), the listing and the  *)
(* cleanup.                                                                 *)
(***************************************************************************)
\* list_api_keys: find(doc! {}) and the cursor read to its end; an error of
\* the store is Database
ListApiKeys(p) ==
    /\ pc[p] = "idle"
    /\ call' = [call EXCEPT ![p] = [CallInit EXCEPT !.op = "list"]]
    /\ pc' = [pc EXCEPT ![p] = "done"]
    /\ ret' = [ret EXCEPT ![p] = IF storeOk THEN Ok(store) ELSE Err("Database")]
    /\ obs' = [obs EXCEPT ![p] = [ObsInit EXCEPT !.queried = TRUE,
                                                !.storeErr = ~storeOk]]
    /\ UNCHANGED <<store, cache, now, storeOk, nextOid, loc, hist, digests, env,
                   handle, heap>>

\* one step of a request of caller p that carries "Bearer <key>", to a
\* handler that takes User and calls require_admin
BearerStep(p) ==
    \/ \E k \in Keys : ReqStart(p, Some(BearerPrefix \o k), "admin_check")
    \/ GuardUpdate(p)
    \/ Handler(p)

\* the caller whose operations are followed
Caller == "p1"

\* a server whose bootstrap secret is k1
RecordInit ==
    /\ digests = HashTable
    /\ env = [EnvInit EXCEPT !.secret = Some(<<107, 49>>)]
    /\ handle = [p \in Procs |-> Some(ManagedArc)]
    /\ heap = <<>>
    /\ store = {}
    /\ cache = <<>>
    /\ now = 0
    /\ storeOk = TRUE
    /\ nextOid = 1
    /\ pc = [p \in Procs |-> "idle"]
    /\ call = [p \in Procs |-> CallInit]
    /\ loc = [p \in Procs |-> None]
    /\ ret = [p \in Procs |-> Pending]
    /\ obs = [p \in Procs |-> ObsInit]
    /\ hist = [k \in Keys |-> HistInit]

\* all the operations, one at a time
RecordNext ==
    \/ Reset(Caller)
    \/ ServiceStep(Caller)
    \/ EnsureStep(Caller)
    \/ BearerStep(Caller)
    \/ ListApiKeys(Caller)
    \/ NoneDone /\ (CleanupCache \/ Tick)

RecordSpec == RecordInit /\ [][RecordNext]_vars

(***************************************************************************)
(* Handles of the service: impl Clone for AuthService, and the cache        *)
(* operations made through a handle.                                        *)
(***************************************************************************)
\* the allocations a clone may be given
MaxArcs == 2

\* the HashMap behind the Arc of a handle
Deref(arc) == IF arc = ManagedArc THEN cache ELSE heap[arc]

\* a faulty Clone, for sensitivity: the clone gets an allocation of its own,
\* holding a copy of the map
CloneDeep(arc, fresh) == fresh

\* impl Clone for AuthService: cache: ApiKeyCache { cache: Arc::clone(..) },
\* the same allocation (fresh: an allocation not yet in use)
Clone(arc, fresh) == arc

\* caller p takes a clone of the handle of q
CloneHandle(p, q) ==
    /\ pc[p] = "idle"
    /\ handle[p] = None
    /\ handle[q] # None
    /\ Cardinality(DOMAIN heap) < MaxArcs
    /\ LET fresh == Cardinality(DOMAIN heap) + 1
           arc == Clone(handle[q][1], fresh)
       IN  /\ handle' = [handle EXCEPT ![p] = Some(arc)]
           /\ heap' = IF arc = ManagedArc \/ arc \in DOMAIN heap
                      THEN heap
                      ELSE [a \in DOMAIN heap \cup {arc} |->
                              IF a = arc THEN Deref(handle[q][1]) ELSE heap[a]]
    /\ UNCHANGED <<store, cache, now, storeOk, nextOid, pc, call, loc, ret, obs,
                   hist, digests, env>>

\* caller p drops its handle while another handle is alive
DropHandle(p) ==
    /\ pc[p] = "idle"
    /\ handle[p] # None
    /\ \E q \in Procs \ {p} : handle[q] # None
    /\ handle' = [handle EXCEPT ![p] = None]
    /\ UNCHANGED <<store, cache, now, storeOk, nextOid, pc, call, loc, ret, obs,
                   hist, digests, env, heap>>

\* the map m is written behind the Arc (RwLock::write)
WriteArc(arc, m) ==
    IF arc = ManagedArc
    THEN cache' = m /\ heap' = heap
    ELSE cache' = cache /\ heap' = [heap EXCEPT ![arc] = m]

\* a cache operation through the handle of p starts: what the map behind the
\* handle held is remembered
HandleCall(p, op, k, a) ==
    /\ pc[p] = "idle"
    /\ handle[p] # None
    /\ call' = [call EXCEPT ![p] = [CallInit EXCEPT !.op = op, !.key = k,
                                                   !.is_admin = a]]
    /\ obs' = [obs EXCEPT ![p] =
                 [ObsInit EXCEPT !.before = Some([store |-> store,
                                                  cache |-> Deref(handle[p][1]),
                                                  nextOid |-> nextOid])]]
    /\ pc' = [pc EXCEPT ![p] = "done"]
    /\ UNCHANGED <<store, now, storeOk, nextOid, loc, digests, env, handle>>

\* self.cache.insert through the handle of p (validate_api_key line 227,
\* create_api_key line 310)
HandleInsert(p, k, a) ==
    /\ HandleCall(p, "insert", k, a)
    /\ WriteArc(handle[p][1],
                CacheInsert(Deref(handle[p][1]), Digest(k),
                            ApiKey(1, Digest(k), a, 0), now))
    /\ ret' = [ret EXCEPT ![p] = Ok(Unit)]
    /\ hist' = [hist EXCEPT ![k].ev = "inserted", ![k].admin = a,
                            ![k].at = now, ![k].by = p]

\* self.cache.remove through the handle of p (revoke_api_key line 325)
HandleRemove(p, k) ==
    /\ HandleCall(p, "remove", k, FALSE)
    /\ WriteArc(handle[p][1], CacheRemove(Deref(handle[p][1]), Digest(k)))
    /\ ret' = [ret EXCEPT ![p] = Ok(Unit)]
    /\ hist' = [hist EXCEPT ![k].ev = "removed", ![k].via = p]

\* self.cache.cleanup_expired through the handle of p (cleanup_cache)
HandleCleanup(p) ==
    /\ HandleCall(p, "cleanup", <<>>, FALSE)
    /\ LET m == CacheCleanup(Deref(handle[p][1]), now)
       IN  /\ WriteArc(handle[p][1], m)
           /\ hist' = [k \in Keys |->
                         IF Digest(k) \in DOMAIN Deref(handle[p][1]) \ DOMAIN m
                         THEN [hist[k] EXCEPT !.ev = "removed", !.via = p]
                         ELSE hist[k]]
    /\ ret' = [ret EXCEPT ![p] = Ok(Unit)]

\* self.cache.get through the handle of p (validate_api_key line 214): the
\* map is read under the read lock and left as it is
HandleGet(p, k) ==
    /\ HandleCall(p, "get", k, FALSE)
    /\ ret' = [ret EXCEPT ![p] = CacheGet(Deref(handle[p][1]), Digest(k), now)]
    /\ UNCHANGED <<cache, heap, hist>>

\* the service made by rocket() and held by p1; the other callers have no
\* handle yet
CloneInit ==
    /\ digests = HashTable
    /\ env = EnvInit
    /\ handle = [p \in Procs |-> IF p = "p1" THEN Some(ManagedArc) ELSE None]
    /\ heap = <<>>
    /\ store = {}
    /\ cache = <<>>
    /\ now = 0
    /\ storeOk = TRUE
    /\ nextOid = 1
    /\ pc = [p \in Procs |-> "idle"]
    /\ call = [p \in Procs |-> CallInit]
    /\ loc = [p \in Procs |-> None]
    /\ ret = [p \in Procs |-> Pending]
    /\ obs = [p \in Procs |-> ObsInit]
    /\ hist = [k \in Keys |-> HistInit]

\* handles are cloned and dropped, and the cache is used through them; each
\* cache operation holds the lock, and the result of a get is looked at
\* before the next operation
CloneNext ==
    \/ \E p \in Procs : Reset(p)
    \/ \E p, q \in Procs : CloneHandle(p, q)
    \/ \E p \in Procs : DropHandle(p)
    \/ NoneDone /\ \E p \in Procs, k \in Keys, a \in BOOLEAN : HandleInsert(p, k, a)
    \/ NoneDone /\ \E p \in Procs, k \in Keys : HandleRemove(p, k)
    \/ NoneDone /\ \E p \in Procs : HandleCleanup(p)
    \/ NoneDone /\ \E p \in Procs, k \in Keys : HandleGet(p, k)
    \/ NoneDone /\ Tick

CloneSpec == CloneInit /\ [][CloneNext]_vars

\* main.rs, rocket(), started with no command-line arguments: lines 32-33
\* make the service and the database pool, lines 56-58 build the server with
\* the service managed and the database attached; nothing else is run, and
\* ensure_admin_exists has no caller
Rocket ==
    /\ ~env.launched
    /\ cache' = <<>>
    /\ env' = [env EXCEPT !.launched = TRUE]
    /\ UNCHANGED <<store, now, storeOk, nextOid, pc, call, loc, ret, obs, hist,
                   digests, handle, heap>>

\* a process about to start, for each content of the store and each value of
\* BOOTSTRAP_ADMIN_KEY
StartInit ==
    /\ digests = HashTable
    /\ env \in {[EnvInit EXCEPT !.secret = s, !.launched = FALSE] : s \in Secrets}
    /\ handle = [p \in Procs |-> Some(ManagedArc)]
    /\ heap = <<>>
    /\ store \in SeedStores
    /\ cache = <<>>
    /\ now = 0
    /\ storeOk = TRUE
    /\ nextOid = MaxOid + 1
    /\ pc = [p \in Procs |-> "idle"]
    /\ call = [p \in Procs |-> CallInit]
    /\ loc = [p \in Procs |-> None]
    /\ ret = [p \in Procs |-> Pending]
    /\ obs = [p \in Procs |-> ObsInit]
    /\ hist = [k \in Keys |-> HistInit]

\* the process starts, then serves requests one at a time
StartNext ==
    \/ Rocket
    \/ \E p \in Procs : Reset(p)
    \/ \E p \in Procs :
          /\ env.launched
          /\ \A q \in Procs \ {p} : pc[q] = "idle"
          /\ GuardStep(p)
    \/ NoneDone /\ (StoreFail \/ StoreRecover)

StartSpec == StartInit /\ [][StartNext]_vars

(***************************************************************************)
(* Properties.                                                              *)
(***************************************************************************)
Returned(p, op) == pc[p] = "done" /\ call[p].op = op

\* C1: one operation at a time, a validate(k) that follows a successful
\* revoke(k) (itself after a successful create(k, true), with or without a
\* validate(k) that cached the record in between) never succeeds, and fails
\* with InvalidKey whenever the store answers its query.
C1_ValidateAfterRevokeFails ==
    \A p \in Procs :
        (Returned(p, "validate") /\ hist[call[p].key].ev = "revoked")
            => /\ ~IsOk(ret[p])
               /\ obs[p].queried
               /\ ~obs[p].storeErr => IsErr(ret[p], "InvalidKey")

\* C1 witness: create(k, true), a validate(k) that returned the record,
\* revoke(k), and then validate(k) has failed with InvalidKey.
C1_Witness ==
    \E p \in Procs :
        /\ Returned(p, "validate")
        /\ hist[call[p].key].ev = "revoked"
        /\ hist[call[p].key].admin
        /\ hist[call[p].key].seen
        /\ IsErr(ret[p], "InvalidKey")

\* C2: under every interleaving, a validate(k) that starts after revoke(k)
\* returned success (and with no create(k) since) does not succeed.
C2_RevocationImmediate ==
    \A p \in Procs :
        (Returned(p, "validate") /\ obs[p].after) => ~IsOk(ret[p])

\* C3: whenever revoke(k) returns, with success or with Database, the cache
\* holds no entry for hash(k).
C3_RevokeAlwaysPurges ==
    \A p \in Procs :
        Returned(p, "revoke")
            => /\ obs[p].purged
               /\ Digest(call[p].key) \notin DOMAIN cache

\* C4: when the store delete of revoke(k) completes without error and matches
\* no record, revoke(k) has removed hash(k) from the cache and returns
\* success.
C4_PurgeOnZeroMatch ==
    \A p \in Procs :
        (Returned(p, "revoke") /\ ~obs[p].storeErr /\ obs[p].deleted = 0)
            => /\ IsOk(ret[p])
               /\ obs[p].purged
               /\ Digest(call[p].key) \notin DOMAIN cache

\* C4 witness: a revoke whose delete matched no record found a cached copy
\* of the key and purged it.
C4_Witness ==
    \E p \in Procs :
        /\ Returned(p, "revoke")
        /\ obs[p].deleted = 0
        /\ ~obs[p].storeErr
        /\ obs[p].hadEntry
        /\ IsOk(ret[p])
        /\ Digest(call[p].key) \notin DOMAIN cache

\* C5: one operation at a time, create(k, a) returns a record with the flag
\* a, and a following validate(k) (no revoke in between) returns a record
\* with the same identifier and is_admin = a whenever the store answers the
\* query it may need; it never fails with InvalidKey.
C5_CreateThenValidate ==
    \A p \in Procs :
        /\ (Returned(p, "create") /\ IsOk(ret[p]))
              => /\ ret[p][2].is_admin = call[p].is_admin
                 /\ ret[p][2].key_hash = Digest(call[p].key)
                 /\ hist[call[p].key].ev = "created"
                 /\ hist[call[p].key].oid = ret[p][2].oid
        /\ (Returned(p, "validate") /\ hist[call[p].key].ev = "created")
              => IF obs[p].storeErr THEN IsErr(ret[p], "Database")
                 ELSE /\ IsOk(ret[p])
                      /\ ret[p][2].oid = hist[call[p].key].oid
                      /\ ret[p][2].is_admin = hist[call[p].key].admin

\* C5 witness: create(k, false) and then validate(k) has returned the record
\* created, without the admin flag.
C5_Witness ==
    \E p \in Procs :
        /\ Returned(p, "validate")
        /\ hist[call[p].key].ev = "created"
        /\ ~hist[call[p].key].admin
        /\ IsOk(ret[p])
        /\ ret[p][2].oid = hist[call[p].key].oid
        /\ ~ret[p][2].is_admin

\* C6: on a cache miss validate(k) queries the store by digest; it fails
\* with Database exactly when the query errors and with InvalidKey exactly
\* when the store answers that no record has the digest, and returns the
\* stored record otherwise.
C6_MissDistinguishesFailures ==
    \A p \in Procs :
        (Returned(p, "validate") /\ obs[p].fresh = None)
            => /\ obs[p].queried
               /\ IsErr(ret[p], "Database") <=> obs[p].storeErr
               /\ IsErr(ret[p], "InvalidKey")
                     <=> /\ ~obs[p].storeErr
                         /\ \A r \in store : r.key_hash # Digest(call[p].key)
               /\ IsOk(ret[p])
                     <=> /\ ~obs[p].storeErr
                         /\ \E r \in store : r.key_hash = Digest(call[p].key)
               /\ IsOk(ret[p])
                     => /\ ret[p][2] \in store
                        /\ ret[p][2].key_hash = Digest(call[p].key)

\* C6 witness: the record of k is in the store, the cache missed, the store
\* query errored, and validate(k) has failed with Database.
C6_Witness ==
    \E p \in Procs :
        /\ Returned(p, "validate")
        /\ obs[p].queried
        /\ obs[p].storeErr
        /\ \E r \in store : r.key_hash = Digest(call[p].key)
        /\ IsErr(ret[p], "Database")

\* C7: when the cache holds an unexpired entry for hash(k), validate(k)
\* returns the cached record at once: no store query, no await, also while
\* the store is failing.
C7_HitSkipsStore ==
    \A p \in Procs :
        (call[p].op = "validate" /\ obs[p].fresh # None)
            => /\ pc[p] = "done"
               /\ ret[p] = Ok(obs[p].fresh[1])
               /\ ~obs[p].queried

\* C7 witness: a validate(k) has succeeded from the cache while the store
\* was failing.
C7_Witness ==
    \E p \in Procs :
        /\ Returned(p, "validate")
        /\ obs[p].fresh # None
        /\ obs[p].down
        /\ ~storeOk
        /\ IsOk(ret[p])
        /\ ~obs[p].queried

\* C8: a validate(k) that misses the cache and finds the record in the store
\* has put it in the cache under hash(k), with age zero, when it returns; the
\* entry stays until a revoke or a cleanup removes it, and a validate(k) that
\* finds it unexpired is a hit that issues no store query.
C8_MissFillsCache ==
    /\ \A p \in Procs :
          (Returned(p, "validate") /\ obs[p].queried /\ IsOk(ret[p]))
              => /\ Digest(call[p].key) \in DOMAIN cache
                 /\ cache[Digest(call[p].key)] = CacheEntry(ret[p][2], now)
                 /\ CacheGet(cache, Digest(call[p].key), now) = Some(ret[p][2])
                 /\ hist[call[p].key].warm
    /\ \A k \in Keys : hist[k].warm => Digest(k) \in DOMAIN cache
    /\ \A p \in Procs :
          (call[p].op = "validate" /\ obs[p].warm)
              => /\ obs[p].hadEntry
                 /\ obs[p].fresh # None
                       => /\ pc[p] = "done"
                          /\ IsOk(ret[p])
                          /\ ~obs[p].queried

\* C8 witness: a validate(k) has hit, without a store query, the entry that
\* an earlier validate(k) cached after missing.
C8_Witness ==
    \E p \in Procs :
        /\ Returned(p, "validate")
        /\ obs[p].warm
        /\ obs[p].fresh # None
        /\ IsOk(ret[p])
        /\ ~obs[p].queried

Request(p) == Returned(p, "request")

\* C9: require_admin is Ok exactly when the admin flag is set and fails with
\* InsufficientPermissions otherwise; the AdminUser guard succeeds only for a
\* validated record with the admin flag and fails with 403
\* InsufficientPermissions for every validated record without it.
C9_AdminCheck ==
    /\ \A u \in store :
          /\ IsOk(require_admin(u)) <=> u.is_admin
          /\ ~u.is_admin => require_admin(u) = Err("InsufficientPermissions")
    /\ \A p \in Procs :
          (Request(p) /\ call[p].route = "admin_check" /\ obs[p].valid # None)
              => /\ IsSuccess(ret[p])
                 /\ ret[p][3] = obs[p].valid[1]
                 /\ IsOk(obs[p].check) <=> obs[p].valid[1].is_admin
                 /\ ~obs[p].valid[1].is_admin
                       => obs[p].check = Err("InsufficientPermissions")
    /\ \A p \in Procs :
          (Request(p) /\ call[p].route = "admin_guard")
              => /\ IsSuccess(ret[p])
                       <=> (obs[p].valid # None /\ obs[p].valid[1].is_admin)
                 /\ IsSuccess(ret[p])
                       => ret[p] = Success("AdminUser", obs[p].valid[1])
                 /\ (obs[p].valid # None /\ ~obs[p].valid[1].is_admin)
                       => ret[p] = Error(403, "InsufficientPermissions")

\* C9 witness: a request through the AdminUser guard with a valid key that
\* has no admin flag has failed with 403 InsufficientPermissions.
C9_Witness ==
    \E p \in Procs :
        /\ Request(p)
        /\ call[p].route = "admin_guard"
        /\ obs[p].valid # None
        /\ ~obs[p].valid[1].is_admin
        /\ ret[p] = Error(403, "InsufficientPermissions")

\* C10: a request without an Authorization header fails with MissingHeader,
\* and before any token extraction, cache lookup, store query or last-used
\* update; no request with a header fails with MissingHeader.
C10_MissingHeaderFirst ==
    \A p \in Procs :
        Request(p)
            => /\ call[p].header = None
                     => /\ ret[p] = Error(401, "MissingHeader")
                        /\ ~obs[p].extracted
                        /\ ~obs[p].looked
                        /\ ~obs[p].queried
                        /\ ~obs[p].updated
               /\ call[p].header # None
                     => ret[p] # Error(401, "MissingHeader")

\* C10 witness: a request without a header, to a route behind the AdminUser
\* guard, has failed with MissingHeader while the key store was failing.
C10_Witness ==
    \E p \in Procs :
        /\ Request(p)
        /\ call[p].header = None
        /\ call[p].route = "admin_guard"
        /\ ~storeOk
        /\ ret[p] = Error(401, "MissingHeader")

\* the header value begins with the seven bytes of "Bearer "
HasBearerPrefix(v) ==
    /\ Len(v) >= 7
    /\ \A i \in 1..7 : v[i] = <<66, 101, 97, 114, 101, 114, 32>>[i]

\* C11: a present header value is accepted exactly when it begins with
\* "Bearer " (capital B, one space), and the token is the rest of the value;
\* every other value ("bearer k1", "Basic k1", "Bearerk1", a bare token, the
\* empty string) fails with InvalidFormat and validate is never reached.
C11_BearerPrefixExact ==
    /\ extract_bearer_token(<<66, 101, 97, 114, 101, 114, 32, 107, 49>>)
          = Ok(<<107, 49>>)
    /\ \A p \in Procs :
          (Request(p) /\ call[p].header # None)
              => LET v == call[p].header[1]
                 IN  /\ obs[p].extracted
                     /\ HasBearerPrefix(v)
                           => /\ obs[p].looked
                              /\ <<66, 101, 97, 114, 101, 114, 32>> \o call[p].key = v
                              /\ ret[p] # Error(401, "InvalidFormat")
                     /\ ~HasBearerPrefix(v)
                           => /\ ret[p] = Error(401, "InvalidFormat")
                              /\ ~obs[p].looked
                              /\ ~obs[p].queried
                              /\ ~obs[p].updated
                              /\ obs[p].valid = None

\* C11 witness: "bearer k1", with k1 a registered key, has failed with
\* InvalidFormat without a lookup.
C11_Witness ==
    \E p \in Procs :
        /\ Request(p)
        /\ call[p].header = Some(<<98, 101, 97, 114, 101, 114, 32, 107, 49>>)
        /\ \E r \in store : r.key_hash = Digest(<<107, 49>>)
        /\ ret[p] = Error(401, "InvalidFormat")
        /\ ~obs[p].looked

\* C12: when validate fails for an extracted token, the User guard fails with
\* the error kind validate returned, InvalidKey or Database, and the AdminUser
\* guard passes it on unchanged; "Bearer <unregistered token>" fails with
\* InvalidKey when the store answers.
C12_ValidateErrorPropagated ==
    \A p \in Procs :
        Request(p)
            => /\ obs[p].verr # None
                     => /\ ret[p][1] = "Error"
                        /\ ret[p][3] = obs[p].verr[1]
                        /\ obs[p].verr[1] \in {"InvalidKey", "Database"}
                        /\ obs[p].verr[1] = "Database" <=> obs[p].storeErr
                        /\ ~obs[p].updated
               /\ ( /\ obs[p].looked
                    /\ obs[p].fresh = None
                    /\ ~obs[p].storeErr
                    /\ \A r \in store : r.key_hash # Digest(call[p].key) )
                     => /\ ret[p][1] = "Error"
                        /\ ret[p][3] = "InvalidKey"

\* C12 witness: through the AdminUser guard, validate failed with Database
\* and the guard has failed with Database.
C12_Witness ==
    \E p \in Procs :
        /\ Request(p)
        /\ call[p].route = "admin_guard"
        /\ obs[p].verr = Some("Database")
        /\ ret[p][1] = "Error"
        /\ ret[p][3] = "Database"

\* C13: the status of an authentication failure is a function of the error
\* kind alone: MissingHeader, InvalidFormat and InvalidKey give 401,
\* InsufficientPermissions 403 and Database 500, in the responder (whose body
\* carries the same code) and in every failure of the User and AdminUser
\* guards.
C13_StatusFromKind ==
    LET StatusOf == [e \in AuthError |->
                       IF e = "Database" THEN 500
                       ELSE IF e = "InsufficientPermissions" THEN 403
                       ELSE 401]
    IN  /\ \A e \in AuthError :
              /\ respond_to(e).status = StatusOf[e]
              /\ respond_to(e).body.status = StatusOf[e]
        /\ \A p \in Procs :
              (Request(p) /\ ret[p][1] = "Error")
                  => ret[p][2] = StatusOf[ret[p][3]]

\* C14: after a successful validation in the guard the last-used update is
\* scheduled without being waited for: no request whose validation succeeded
\* is left without its outcome while the update's store call is outstanding.
C14_UpdateNonBlocking ==
    \A p \in Procs :
        (call[p].op = "request" /\ obs[p].valid # None /\ ~obs[p].updated)
            => ret[p] # Pending

\* C15: whenever validate succeeded, the guard yields the Principal built
\* from the validated record, whether the last-used update succeeded or
\* failed with Database.
C15_UpdateFailureIgnored ==
    \A p \in Procs :
        (Request(p) /\ obs[p].valid # None)
            => LET r == obs[p].valid[1]
               IN  /\ obs[p].updated
                   /\ call[p].route \in {"user", "admin_check"}
                         => ret[p] = Success("User", r)
                   /\ (call[p].route = "admin_guard" /\ r.is_admin)
                         => ret[p] = Success("AdminUser", r)
                   /\ (call[p].route = "admin_guard" /\ ~r.is_admin)
                         => ret[p] = Error(403, "InsufficientPermissions")

\* C15 witness: the last-used update failed and the request has its
\* Principal, built from the validated record.
C15_Witness ==
    \E p \in Procs :
        /\ Request(p)
        /\ call[p].route = "user"
        /\ obs[p].valid # None
        /\ obs[p].updErr
        /\ ret[p] = Success("User", obs[p].valid[1])

\* C16: whenever the store holds at least one admin record, a call of
\* ensure_admin_exists writes nothing to the store, changes nothing in the
\* cache and returns success when its count is answered, with or without the
\* bootstrap secret; so does a second call after the first created the admin.
C16_EnsureIdempotent ==
    \A p \in Procs :
        (Returned(p, "ensure")
            /\ \E r \in obs[p].before[1].store : r.is_admin)
            => /\ store = obs[p].before[1].store
               /\ cache = obs[p].before[1].cache
               /\ nextOid = obs[p].before[1].nextOid
               /\ IF obs[p].storeErr
                  THEN ret[p] = Err("Database")
                  ELSE /\ ret[p] = Ok(Unit)
                       /\ obs[p].count # None
                       /\ obs[p].count[1] > 0

\* C16 witness: with the secret set, a call that follows the call that
\* created the bootstrap admin has returned success and written nothing.
C16_Witness ==
    \E p \in Procs :
        /\ Returned(p, "ensure")
        /\ env.secret # None
        /\ hist[env.secret[1]].boot
        /\ obs[p].count # None
        /\ obs[p].count[1] = 1
        /\ ret[p] = Ok(Unit)
        /\ store = obs[p].before[1].store
        /\ cache = obs[p].before[1].cache

\* C17: with zero admin records counted, ensure_admin_exists creates exactly
\* one record, with the admin flag, from the bootstrap secret when it is set,
\* returns the create error, with no write to the store and no insert into
\* the cache, when the creation fails, and
\* writes nothing and returns success when the secret is not set; after a
\* successful creation validate(secret) yields the admin record.
C17_EnsureCreatesAdmin ==
    /\ \A p \in Procs :
          (Returned(p, "ensure") /\ obs[p].count = Some(0))
              => LET b == obs[p].before[1]
                 IN  IF env.secret = None
                     THEN /\ ret[p] = Ok(Unit)
                          /\ store = b.store
                          /\ cache = b.cache
                     ELSE IF IsOk(ret[p])
                     THEN /\ ret[p] = Ok(Unit)
                          /\ b.store \subseteq store
                          /\ Cardinality(store \ b.store) = 1
                          /\ \A r \in store \ b.store :
                                /\ r.is_admin
                                /\ r.key_hash = Digest(env.secret[1])
                                /\ CacheGet(cache, r.key_hash, now) = Some(r)
                          /\ hist[env.secret[1]].boot
                     ELSE /\ ret[p] = Err("Database")
                          /\ obs[p].storeErr
                          /\ store = b.store
                          /\ \A d \in DOMAIN cache :
                                d \in DOMAIN b.cache /\ cache[d] = b.cache[d]
    /\ \A p \in Procs :
          (Returned(p, "validate") /\ hist[call[p].key].boot)
              => IF obs[p].storeErr THEN ret[p] = Err("Database")
                 ELSE /\ IsOk(ret[p])
                      /\ ret[p][2].is_admin
                      /\ ret[p][2].oid = hist[call[p].key].oid
                      /\ Some(call[p].key) = env.secret

\* C17 witness: the bootstrap admin was created from the secret and
\* validate(secret), after its cache entry expired, has returned it.
C17_Witness ==
    \E p \in Procs :
        /\ Returned(p, "validate")
        /\ hist[call[p].key].boot
        /\ obs[p].queried
        /\ IsOk(ret[p])
        /\ ret[p][2].is_admin

\* C18: ensure_admin_exists runs at every process start before requests are
\* authenticated: with BOOTSTRAP_ADMIN_KEY set, an admin record exists by the
\* time a request is served, also when the store held no admin at start.
C18_BootstrapAtStartup ==
    \A p \in Procs :
        (call[p].op = "request" /\ env.secret # None)
            => \E r \in store : r.is_admin

\* C19: create(k, a) for a key whose digest is already stored fails with
\* Database; whenever create fails it returns Database, stores nothing and
\* leaves the cache as it was, and the record stored before stays the one
\* validate(k) returns.
C19_DuplicateRejected ==
    /\ \A p \in Procs :
          Returned(p, "create")
              => LET b == obs[p].before[1]
                 IN  /\ (\E r \in b.store : r.key_hash = Digest(call[p].key))
                           => ret[p] = Err("Database")
                     /\ ret[p][1] = "Err"
                           => /\ ret[p] = Err("Database")
                              /\ store = b.store
                              /\ cache = b.cache
    /\ \A p \in Procs :
          (Returned(p, "validate") /\ hist[call[p].key].ev = "created"
              /\ ~obs[p].storeErr)
              => /\ IsOk(ret[p])
                 /\ ret[p][2].oid = hist[call[p].key].oid
                 /\ ret[p][2].is_admin = hist[call[p].key].admin

\* C19 witness: create(k, TRUE) for a key stored without the admin flag has
\* failed with Database, and the cache still holds the record stored before.
C19_Witness ==
    \E p \in Procs :
        /\ Returned(p, "create")
        /\ call[p].is_admin
        /\ storeOk
        /\ ret[p] = Err("Database")
        /\ \E r \in store :
              /\ r.key_hash = Digest(call[p].key)
              /\ ~r.is_admin
              /\ CacheGet(cache, r.key_hash, now) = Some(r)

\* C20: every handle of the service, the original and every clone, works on
\* one single cache: a get through any handle sees the last insert, remove
\* or cleanup made through any other handle, so an entry removed through one
\* clone is not found through another.
C20_ClonesShareCache ==
    /\ \A p \in Procs : handle[p] # None => Deref(handle[p][1]) = cache
    /\ heap = <<>>
    /\ \A p \in Procs :
          Returned(p, "get")
              => LET h == hist[call[p].key]
                 IN  /\ h.ev \in {"none", "removed"} => ret[p] = None
                     /\ (h.ev = "inserted" /\ now - h.at < TTL_DAYS)
                           => /\ ret[p] # None
                              /\ ret[p][1].is_admin = h.admin
                              /\ ret[p][1].key_hash = Digest(call[p].key)
                     /\ (h.ev = "inserted" /\ now - h.at >= TTL_DAYS)
                           => ret[p] = None

\* C20 witness: an entry inserted through one handle was removed through
\* another, and a get through the first finds nothing.
C20_Witness ==
    \E p \in Procs :
        /\ Returned(p, "get")
        /\ \A q \in Procs : handle[q] # None
        /\ hist[call[p].key].ev = "removed"
        /\ hist[call[p].key].by = p
        /\ hist[call[p].key].via \in Procs \ {p}
        /\ ret[p] = None

\* the records of the program: stored, cached, or held by a caller across an
\* await (validate's find_one result, create's new record, the guard's
\* validated record)
Records(st, ca, lo) ==
    st \cup {ca[d].api_key : d \in DOMAIN ca}
       \cup {lo[p][1] : p \in {q \in Procs : lo[q] # None}}

\* the fields of a record other than last_used_at
Fixed(r) == <<r.oid, r.key_hash, r.is_admin, r.created_at>>

\* C21: no step of create, validate, update_last_used, revoke, list, cleanup
\* or ensure_admin_exists changes the admin flag of a record: the records
\* with one identifier before and after the step, stored, cached or in
\* flight, have the same flag, digest and creation time, and a stored record
\* differs from its earlier self in last_used_at at most.
C21_AdminFlagImmutable ==
    [][/\ \A r \in Records(store, cache, loc) :
            \A r2 \in Records(store', cache', loc') :
                r.oid = r2.oid => Fixed(r) = Fixed(r2)
       /\ \A r \in store : \A r2 \in store' :
            r.oid = r2.oid => r2 = [r EXCEPT !.last_used_at = r2.last_used_at]
       /\ \A r2 \in Records(store', cache', loc') :
            (\A r \in Records(store, cache, loc) : r.oid # r2.oid)
                => r2.oid = nextOid /\ nextOid' > nextOid]_vars

\* C21 witness: update_last_used has written to an admin record that is
\* also cached; the stored record carries the new last_used_at, the cached
\* one does not, and both carry the flag.
C21_Witness ==
    \E r \in store :
        /\ r.is_admin
        /\ r.last_used_at # None
        /\ r.key_hash \in DOMAIN cache
        /\ cache[r.key_hash].api_key.oid = r.oid
        /\ cache[r.key_hash].api_key.is_admin
        /\ cache[r.key_hash].api_key.last_used_at = None
        /\ \E p \in Procs : Returned(p, "request") /\ obs[p].updated

\* the map behind the caller's handle when its cache operation started
Before(p) == obs[p].before[1].cache

\* the entries under digests other than d are the same in maps m1 and m2
SameElsewhere(m1, m2, d) ==
    /\ DOMAIN m1 \ {d} = DOMAIN m2 \ {d}
    /\ \A x \in DOMAIN m1 \ {d} : m1[x] = m2[x]

\* C22: get(d) returns the stored record exactly when an entry for d exists
\* and its age is strictly less than the TTL, a miss otherwise, and leaves
\* the map as it was (a stale entry stays).
C22_GetFreshOnly ==
    \A p \in Procs :
        Returned(p, "get")
            => LET d == Digest(call[p].key)
               IN  /\ cache = Before(p)
                   /\ IF d \in DOMAIN Before(p)
                         /\ now - Before(p)[d].cached_at < TTL_DAYS
                      THEN ret[p] = Some(Before(p)[d].api_key)
                      ELSE ret[p] = None

\* C22 witness: a get has missed on an entry exactly as old as the TTL, and
\* the entry is still in the map.
C22_Witness ==
    \E p \in Procs :
        /\ Returned(p, "get")
        /\ ret[p] = None
        /\ Digest(call[p].key) \in DOMAIN cache
        /\ now - cache[Digest(call[p].key)].cached_at = TTL_DAYS

\* C23: insert(d, r) puts r under d with age zero whatever the map held for
\* d, so a get(d) right after it returns r, and leaves the entries under
\* other digests as they were.
C23_InsertUpserts ==
    \A p \in Procs :
        Returned(p, "insert")
            => LET d == Digest(call[p].key)
                   r == ApiKey(1, d, call[p].is_admin, 0)
               IN  /\ d \in DOMAIN cache
                   /\ cache[d].api_key = r
                   /\ cache[d].cached_at = now
                   /\ CacheGet(cache, d, now) = Some(r)
                   /\ SameElsewhere(Before(p), cache, d)

\* C23 witness: an insert has replaced an expired entry that held a record
\* with the other flag, while an entry under another digest stayed.
C23_Witness ==
    \E p \in Procs :
        /\ Returned(p, "insert")
        /\ Digest(call[p].key) \in DOMAIN Before(p)
        /\ now - Before(p)[Digest(call[p].key)].cached_at >= TTL_DAYS
        /\ Before(p)[Digest(call[p].key)].api_key.is_admin # call[p].is_admin
        /\ DOMAIN cache # {Digest(call[p].key)}
        /\ CacheGet(cache, Digest(call[p].key), now) # None

\* C24: after remove(d) the map has no entry for d and get(d) misses; when d
\* was absent the map is as it was; the entries under other digests are as
\* they were.
C24_RemoveDeletes ==
    \A p \in Procs :
        Returned(p, "remove")
            => LET d == Digest(call[p].key)
               IN  /\ d \notin DOMAIN cache
                   /\ CacheGet(cache, d, now) = None
                   /\ d \notin DOMAIN Before(p) => cache = Before(p)
                   /\ SameElsewhere(Before(p), cache, d)

\* C24 witness: a remove has deleted an unexpired entry while the entry
\* under the other digest stayed.
C24_Witness ==
    \E p \in Procs :
        /\ Returned(p, "remove")
        /\ Digest(call[p].key) \in DOMAIN Before(p)
        /\ now - Before(p)[Digest(call[p].key)].cached_at < TTL_DAYS
        /\ cache # <<>>

\* C25: cleanup removes every entry older than the TTL, keeps every entry
\* younger than the TTL as it was (insertion instant included), adds
\* nothing, and removes exactly the entries on which get misses.
C25_CleanupMatchesGet ==
    \A p \in Procs :
        Returned(p, "cleanup")
            => /\ DOMAIN cache \subseteq DOMAIN Before(p)
               /\ \A d \in DOMAIN Before(p) :
                    /\ now - Before(p)[d].cached_at > TTL_DAYS
                          => d \notin DOMAIN cache
                    /\ now - Before(p)[d].cached_at < TTL_DAYS
                          => d \in DOMAIN cache /\ cache[d] = Before(p)[d]
                    /\ d \notin DOMAIN cache
                          <=> CacheGet(Before(p), d, now) = None

\* C25 witness: a cleanup has removed an entry older than the TTL and kept
\* a younger one.
C25_Witness ==
    \E p \in Procs :
        /\ Returned(p, "cleanup")
        /\ \E d \in DOMAIN Before(p) :
              now - Before(p)[d].cached_at > TTL_DAYS /\ d \notin DOMAIN cache
        /\ \E d \in DOMAIN cache : now - cache[d].cached_at < TTL_DAYS

\* the characters of a string
Chars(str) == {SubSeq(str, i, i) : i \in 1..Len(str)}

\* C26: the digests two callers get are equal when the plaintexts are equal
\* and differ when the plaintexts differ, and every digest is 64 characters
\* out of 0-9 and a-f; the digest of "abc" is the SHA-256 test vector.
C26_HashDeterministic ==
    /\ \A p, q \in Procs :
          (Returned(p, "hash") /\ Returned(q, "hash"))
              => (call[p].key = call[q].key <=> ret[p] = ret[q])
    /\ \A p \in Procs :
          Returned(p, "hash")
              => /\ IsOk(ret[p])
                 /\ Len(ret[p][2]) = 64
                 /\ Chars(ret[p][2]) \subseteq
                        {"0", "1", "2", "3", "4", "5", "6", "7", "8", "9",
                         "a", "b", "c", "d", "e", "f"}
                 /\ call[p].key = <<97, 98, 99>>
                       => ret[p][2] = "ba7816bf8f01cfea414140de5dae2223b00361a396177a9cb410ff61f20015ad"

\* C26 witness: two callers hold the digests of two plaintexts that differ
\* in their second byte only, and the digests differ.
C26_Witness ==
    /\ Returned("p1", "hash") /\ Returned("p2", "hash")
    /\ call["p1"].key = <<107, 49>>
    /\ call["p2"].key = <<107, 50>>
    /\ ret["p1"] # ret["p2"]

\* C27: whenever no operation of the service is in flight, every unexpired
\* cache entry under a digest d holds a record that is in the store with
\* digest d, whatever the interleaving of the concurrent create, validate
\* and revoke calls before.
C27_CacheWithinStore ==
    (\A p \in Procs : pc[p] = "idle")
        => \A d \in DOMAIN cache :
              now - cache[d].cached_at < TTL_DAYS
                  => \E r \in store :
                        /\ r.key_hash = d
                        /\ r.oid = cache[d].api_key.oid
                        /\ cache[d].api_key.key_hash = d

C29_ExpiredEntryNoAuthority ==
    \A p \in Procs :
        (Returned(p, "validate") /\ obs[p].hadEntry /\ obs[p].fresh = None)
            => LET d == Digest(call[p].key)
               IN  /\ obs[p].queried
                   /\ IsOk(ret[p])
                         => /\ ret[p][2].key_hash = d
                            /\ d \in DOMAIN cache
                            /\ cache[d].api_key = ret[p][2]
                            /\ cache[d].cached_at = now
                   /\ ~IsOk(ret[p])
                         => /\ (obs[p].storeErr => IsErr(ret[p], "Database"))
                            /\ (~obs[p].storeErr
                                   => /\ IsErr(ret[p], "InvalidKey")
                                      /\ \A r \in store : r.key_hash # d)

\* C29 witness: a validate has failed with InvalidKey while the map still
\* holds the expired entry for the key, whose record is not in the store.
C29_Witness ==
    \E p \in Procs :
        /\ Returned(p, "validate")
        /\ obs[p].hadEntry
        /\ obs[p].fresh = None
        /\ IsErr(ret[p], "InvalidKey")
        /\ Digest(call[p].key) \in DOMAIN cache
        /\ now - cache[Digest(call[p].key)].cached_at >= TTL_DAYS

\* the documents stored under the digest of the bootstrap secret
UnderSecret(coll) == {r \in coll : r.key_hash = Digest(env.secret[1])}

\* an ensure_admin_exists of a caller other than p has counted and not yet
\* returned
OtherEnsureInFlight(p) ==
    \E q \in Procs \ {p} :
        call[q].op = "ensure" /\ pc[q] \in {"e_create", "c_cache"}

\* the admin records of a collection
Admins(coll) == {r \in coll : r.is_admin}

\* the call of p started on a store with no admin
StartedWithoutAdmin(p) ==
    obs[p].before # None /\ Admins(obs[p].before[1].store) = {}

====
